---- MODULE Spec2Model ----
(***************************************************************************)
(* Vehicle insurance renewal system (src/vehicleregestration.cpp).         *)
(*                                                                         *)
(* Money is a C++ double in the source.  It is modelled as an exact        *)
(* rational [n, d] in lowest terms, so that 0.025, 0.03, 0.015, 0.05, 0.12 *)
(* and 0.18 are 25/1000, 3/100, 15/1000, 5/100, 12/100 and 18/100; binary  *)
(* rounding of doubles is outside the model.                               *)
(* A std::string is a sequence of one-character strings, so that toupper   *)
(* and tolower act character by character as std::transform does.          *)
(***************************************************************************)
EXTENDS Integers, Sequences, FiniteSets, TLC

VARIABLES
    v,            \* the Vehicle: year, originalValue, fuelType, policy
    systemYear,   \* what getCurrentSystemYear() reads from the clock
    pc,           \* position inside performRenewal: "idle", "choose", "confirm"
    currentDate,  \* performRenewal's currentDate argument
    basePremium,  \* performRenewal's local basePremium
    s,            \* performRenewal's local StatusResult
    qm,           \* performRenewal's local BillAndMethod
    entry,        \* the Policy as it was when performRenewal was entered
    events,       \* what the current performRenewal call has done, in order
    outcome,      \* how the last performRenewal call returned
    renewals,     \* number of committed renewals
    receipts,     \* receipts printed so far
    calls,        \* number of performRenewal calls started
    args,         \* arguments of a direct call of one function
    ret,          \* the value that call returned
    called        \* whether that call has been made

vars == <<v, systemYear, pc, currentDate, basePremium, s, qm, entry, events,
          outcome, renewals, receipts, calls, args, ret, called>>

wfvars == <<v, systemYear, pc, currentDate, basePremium, s, qm, entry, events,
            outcome, renewals, receipts, calls>>

----------------------------------------------------------------------------
(* Exact rational arithmetic standing for double.                          *)

Abs(x) == IF x < 0 THEN -x ELSE x

RECURSIVE Gcd(_, _)
Gcd(a, b) == IF b = 0 THEN a ELSE Gcd(b, a % b)

Rat(n, d) ==
    LET g == Gcd(Abs(n), Abs(d))
        sg == IF d < 0 THEN -1 ELSE 1
    IN  [n |-> sg * (n \div g), d |-> sg * (d \div g)]

RInt(i) == [n |-> i, d |-> 1]
RAdd(a, b) ==
    LET g == Gcd(a.d, b.d)
    IN  Rat(a.n * (b.d \div g) + b.n * (a.d \div g), (a.d \div g) * b.d)
RNeg(a) == [n |-> -a.n, d |-> a.d]
RSub(a, b) == RAdd(a, RNeg(b))
RMul(a, b) ==
    LET g1 == Gcd(Abs(a.n), b.d)
        g2 == Gcd(Abs(b.n), a.d)
    IN  Rat((a.n \div g1) * (b.n \div g2), (a.d \div g2) * (b.d \div g1))
RLt(a, b) == a.n * b.d < b.n * a.d
RLe(a, b) == a.n * b.d <= b.n * a.d
RMin(a, b) == IF RLt(b, a) THEN b ELSE a     \* std::min(a, b)
RMax(a, b) == IF RLt(a, b) THEN b ELSE a     \* std::max(a, b)
Zero == RInt(0)

----------------------------------------------------------------------------
(* Characters and strings.                                                 *)

LowerChars == <<"a","b","c","d","e","f","g","h","i","j","k","l","m",
                "n","o","p","q","r","s","t","u","v","w","x","y","z">>
UpperChars == <<"A","B","C","D","E","F","G","H","I","J","K","L","M",
                "N","O","P","Q","R","S","T","U","V","W","X","Y","Z">>

toupper(ch) ==
    IF \E i \in 1..26 : LowerChars[i] = ch
    THEN UpperChars[CHOOSE i \in 1..26 : LowerChars[i] = ch]
    ELSE ch

tolower(ch) ==
    IF \E i \in 1..26 : UpperChars[i] = ch
    THEN LowerChars[CHOOSE i \in 1..26 : UpperChars[i] = ch]
    ELSE ch

\* std::transform(c.begin(), c.end(), c.begin(), toupper)
ToUpperStr(str) == [i \in 1..Len(str) |-> toupper(str[i])]
\* std::transform(f.begin(), f.end(), f.begin(), tolower)
ToLowerStr(str) == [i \in 1..Len(str) |-> tolower(str[i])]

Whitespace == {" ", "\t", "\r", "\n"}

getLineTrimmed(line) ==
    LET keep == {i \in 1..Len(line) : line[i] \notin Whitespace}
    IN  IF keep = {} THEN <<>>
        ELSE LET l == CHOOSE i \in keep : \A j \in keep : i <= j
                 r == CHOOSE i \in keep : \A j \in keep : j <= i
             IN  SubSeq(line, l, r)

----------------------------------------------------------------------------
(* Dates.                                                                  *)

PolicyDate(d, m, y) == [day |-> d, month |-> m, year |-> y]

IsLeap(y) == (y % 4 = 0 /\ y % 100 # 0) \/ y % 400 = 0

DaysBeforeYear(y) ==
    365 * (y - 1) + ((y - 1) \div 4) - ((y - 1) \div 100) + ((y - 1) \div 400)

CumDays == <<0, 31, 59, 90, 120, 151, 181, 212, 243, 273, 304, 334>>

DaysBeforeMonth(y, m) == CumDays[m] + (IF m > 2 /\ IsLeap(y) THEN 1 ELSE 0)

\* Day count of a broken-down date as mktime normalises it: a day past the
\* end of its month runs on into the next month (31/02 is 02/03 or 03/03).
DayNumber(date) ==
    DaysBeforeYear(date.year) + DaysBeforeMonth(date.year, date.month) + date.day

EpochDay == DayNumber(PolicyDate(1, 1, 1970))

\* Month and day of the normalised date, for the local-time rule below.
NormMonth(date) ==
    LET yd == DaysBeforeMonth(date.year, date.month) + date.day
    IN  IF yd > DaysBeforeMonth(date.year, 12) + 31 THEN 1
        ELSE CHOOSE m \in 1..12 :
               /\ DaysBeforeMonth(date.year, m) < yd
               /\ (m = 12 \/ yd <= DaysBeforeMonth(date.year, m + 1))

\* Offset of local time from UTC in seconds (tm_isdst = -1 lets mktime
\* decide): a zone one hour ahead from April to October.
UtcOffset(date) == IF NormMonth(date) \in 4..10 THEN 3600 ELSE 0

dateToTimeT(date) ==
    (DayNumber(date) - EpochDay) * 86400 + 12 * 3600 - UtcOffset(date)

\* The day count truncated towards zero instead of rounded
llroundDays_Truncate(diffSec) ==
    IF diffSec >= 0 THEN diffSec \div 86400 ELSE -((-diffSec) \div 86400)

\* std::llround(x / 86400.0): to nearest, halves away from zero
llroundDays(diffSec) ==
    IF diffSec >= 0 THEN (2 * diffSec + 86400) \div (2 * 86400)
    ELSE -((2 * (-diffSec) + 86400) \div (2 * 86400))

daysBetween(d1, d2) == llroundDays(dateToTimeT(d1) - dateToTimeT(d2))

\* calculateRenewalDate moving a 29 February to the 28th
calculateRenewalDate_ClampLeapDay(from) ==
    IF from.month = 2 /\ from.day = 29
    THEN [from EXCEPT !.year = from.year + 1, !.day = 28]
    ELSE [from EXCEPT !.year = from.year + 1]

calculateRenewalDate(from) == [from EXCEPT !.year = from.year + 1]

----------------------------------------------------------------------------
(* Policy and Vehicle.                                                     *)

Policy(reg, due, status) ==
    [registrationDate |-> reg, renewalDueDate |-> due, status |-> status]

\* Vehicle::Vehicle(m, mod, y, val, ft, regDate); make and model are only
\* ever printed and are left out.
Vehicle(y, val, ft, regDate) ==
    [year |-> y, originalValue |-> val, fuelType |-> ft,
     policy |-> Policy(regDate, calculateRenewalDate(regDate), "New")]

setPolicyStatus(veh, status) == [veh EXCEPT !.policy.status = status]

\* setRenewalDueDate storing the date in the wrong field
setRenewalDueDate_WritesRegistration(veh, d) ==
    [veh EXCEPT !.policy.registrationDate = d]

setRenewalDueDate(veh, d) == [veh EXCEPT !.policy.renewalDueDate = d]

----------------------------------------------------------------------------
(* InsuranceCalculator.                                                    *)

BASE_RATE_PERCENTAGE == Rat(25, 1000)
AGE_DEPRECIATION_RATE == Rat(3, 100)
MINIMUM_AGE_FACTOR == Rat(7, 10)
MINIMUM_PREMIUM == RInt(5000)
GRACE_PERIOD_DAYS == 30
FINE_PER_DAY == RInt(50)

getCurrentSystemYear == systemYear

getBaseRate(vehicle) == RMul(vehicle.originalValue, BASE_RATE_PERCENTAGE)

\* getAgeFactor without the 0.7 floor
getAgeFactor_NoFloor(year) ==
    LET cy == getCurrentSystemYear
        age == IF cy - year > 0 THEN cy - year ELSE 0
    IN  RSub(RInt(1), RMul(RInt(age), AGE_DEPRECIATION_RATE))

getAgeFactor(year) ==
    LET cy == getCurrentSystemYear
        age == IF cy - year > 0 THEN cy - year ELSE 0
        factor == RSub(RInt(1), RMul(RInt(age), AGE_DEPRECIATION_RATE))
    IN  RMax(MINIMUM_AGE_FACTOR, factor)

getFuelTypeAdjustment(fuelType) ==
    LET f == ToLowerStr(fuelType)
    IN  IF f = <<"e","l","e","c","t","r","i","c">> THEN RInt(-500)
        ELSE IF f = <<"d","i","e","s","e","l">> THEN RInt(250)
        ELSE Zero

calculatePremium(vehicle) ==
    LET baseRate == getBaseRate(vehicle)
        ageFactor == getAgeFactor(vehicle.year)
        fuelAdjustment == getFuelTypeAdjustment(vehicle.fuelType)
        premium == RAdd(RMul(baseRate, ageFactor), fuelAdjustment)
    IN  IF RLt(premium, MINIMUM_PREMIUM) THEN MINIMUM_PREMIUM ELSE premium

\* calculateLateFine charging the grace days too once they are exceeded
calculateLateFine_FromFirstDay(daysOverdue) ==
    IF daysOverdue <= GRACE_PERIOD_DAYS THEN Zero
    ELSE RMul(RInt(daysOverdue), FINE_PER_DAY)

calculateLateFine(daysOverdue) ==
    IF daysOverdue <= GRACE_PERIOD_DAYS THEN Zero
    ELSE LET fineDays == daysOverdue - GRACE_PERIOD_DAYS
         IN  RMul(RInt(fineDays), FINE_PER_DAY)

----------------------------------------------------------------------------
(* PaymentProcessor.                                                       *)

Card == 1
UPI == 2
NetBanking == 3
Branch == 4
EMI3 == 5
EMI6 == 6

GST_RATE == Rat(18, 100)

\* BillBreakdown::BillBreakdown()
BillBreakdown ==
    [basePremium |-> Zero, fine |-> Zero, discount |-> Zero,
     convenienceFee |-> Zero, emiInterest |-> Zero, gst |-> Zero,
     total |-> Zero]

\* applyPromo comparing the code as typed
applyPromo_CaseSensitive(code, subtotalBeforeGST) ==
    IF code = <<"L","O","Y","A","L","5">>
    THEN RMin(RInt(500), RMul(Rat(5, 100), subtotalBeforeGST))
    ELSE IF code = <<"F","I","R","S","T","1","0","0">> THEN RInt(100)
    ELSE Zero

applyPromo(code, subtotalBeforeGST) ==
    LET c == ToUpperStr(code)
    IN  IF c = <<"L","O","Y","A","L","5">>
        THEN RMin(RInt(500), RMul(Rat(5, 100), subtotalBeforeGST))
        ELSE IF c = <<"F","I","R","S","T","1","0","0">> THEN RInt(100)
        ELSE Zero

\* The convenience fee with the card fee not capped at 150
ConvenienceFee_Uncapped(method, premium, fine) ==
    CASE method = Card -> RMul(Rat(15, 1000), RAdd(premium, fine))
      [] method = NetBanking -> RInt(10)
      [] method = Branch -> RInt(50)
      [] OTHER -> Zero

\* The convenience fee of quote's switch.
ConvenienceFee(method, premium, fine) ==
    CASE method = Card -> RMin(RInt(150), RMul(Rat(15, 1000), RAdd(premium, fine)))
      [] method = UPI -> Zero
      [] method = NetBanking -> RInt(10)
      [] method = Branch -> RInt(50)
      [] method = EMI3 -> Zero
      [] method = EMI6 -> Zero
      [] OTHER -> Zero

\* The EMI interest of quote: 0.12 * principal * months / 12.
EmiInterest(method, premium, fine) ==
    LET months == IF method = EMI6 THEN 6 ELSE IF method = EMI3 THEN 3 ELSE 0
        principal == RAdd(premium, fine)
    IN  IF months > 0
        THEN RMul(RMul(Rat(12, 100), principal), Rat(months, 12))
        ELSE Zero

\* The post-discount subtotal without its floor at 0
PostDiscount_NoFloor(subtotal, discount) == RSub(subtotal, discount)

\* max(0.0, subtotalBeforeGST - b.discount)
PostDiscount(subtotal, discount) == RMax(Zero, RSub(subtotal, discount))

\* quote taxing the subtotal before the discount is taken off
quote_TaxBeforeDiscount(method, premium, fine, promoCode) ==
    LET conv == ConvenienceFee(method, premium, fine)
        emiInt == EmiInterest(method, premium, fine)
        subtotalBeforeGST == RAdd(RAdd(RAdd(premium, fine), conv), emiInt)
        discount == applyPromo(promoCode, subtotalBeforeGST)
        post == PostDiscount(subtotalBeforeGST, discount)
        gst == RMul(subtotalBeforeGST, GST_RATE)
    IN  [basePremium |-> premium, fine |-> fine, discount |-> discount,
         convenienceFee |-> conv, emiInterest |-> emiInt, gst |-> gst,
         total |-> RAdd(post, gst)]

quote(method, premium, fine, promoCode) ==
    LET conv == ConvenienceFee(method, premium, fine)
        emiInt == EmiInterest(method, premium, fine)
        subtotalBeforeGST == RAdd(RAdd(RAdd(premium, fine), conv), emiInt)
        discount == applyPromo(promoCode, subtotalBeforeGST)
        post == PostDiscount(subtotalBeforeGST, discount)
        gst == RMul(post, GST_RATE)
    IN  [basePremium |-> premium, fine |-> fine, discount |-> discount,
         convenienceFee |-> conv, emiInterest |-> emiInt, gst |-> gst,
         total |-> RAdd(post, gst)]

----------------------------------------------------------------------------
(* Policy status.                                                          *)

\* StatusResult::StatusResult()
StatusResult ==
    [status |-> "New", daysToDueOrOverdue |-> 0, fine |-> Zero, expired |-> FALSE]

\* evaluateStatus with the grace period ending a day early
evaluateStatus_GraceExclusive(veh, current) ==
    LET diff == daysBetween(veh.policy.renewalDueDate, current)
        overdueDays == Abs(diff)
    IN  IF diff >= 0
        THEN [status |-> "Active", daysToDueOrOverdue |-> diff,
              fine |-> Zero, expired |-> FALSE]
        ELSE IF overdueDays < GRACE_PERIOD_DAYS
        THEN [status |-> "Due (Grace Period)", daysToDueOrOverdue |-> -overdueDays,
              fine |-> Zero, expired |-> FALSE]
        ELSE [status |-> "OVERDUE / EXPIRED", daysToDueOrOverdue |-> -overdueDays,
              fine |-> calculateLateFine(overdueDays), expired |-> TRUE]

evaluateStatus(veh, current) ==
    LET diff == daysBetween(veh.policy.renewalDueDate, current)
        overdueDays == Abs(diff)
    IN  IF diff >= 0
        THEN [status |-> "Active", daysToDueOrOverdue |-> diff,
              fine |-> Zero, expired |-> FALSE]
        ELSE IF overdueDays <= GRACE_PERIOD_DAYS
        THEN [status |-> "Due (Grace Period)", daysToDueOrOverdue |-> -overdueDays,
              fine |-> Zero, expired |-> FALSE]
        ELSE [status |-> "OVERDUE / EXPIRED", daysToDueOrOverdue |-> -overdueDays,
              fine |-> calculateLateFine(overdueDays), expired |-> TRUE]

\* BillAndMethod::BillAndMethod()
BillAndMethod == [bill |-> BillBreakdown, method |-> UPI, valid |-> FALSE]

\* quoteAndChoosePayment, given the integer and the line read from input
quoteAndChoosePayment(premium, fine, methodChoice, promoLine) ==
    IF methodChoice < 1 \/ methodChoice > 6 THEN BillAndMethod
    ELSE [bill |-> quote(methodChoice, premium, fine, getLineTrimmed(promoLine)),
          method |-> methodChoice, valid |-> TRUE]

\* The guard letting a policy in its grace period through
RenewalDisabled_ActiveOnly(st) == st.daysToDueOrOverdue >= 0

\* performRenewal's guard: renewal allowed only if expired
RenewalDisabled(st) == ~st.expired

\* confirmAndPay's answer to the character read
PaymentConfirmed(ch) == ch = "y" \/ ch = "Y"

----------------------------------------------------------------------------
(* Bounds and the inputs drawn from them.                                  *)

MaxRegYears == 2         \* registration years 2022 .. 2021 + MaxRegYears
MaxCurYears == 3         \* current-date years 2023 .. 2022 + MaxCurYears
MaxCalls == 2            \* performRenewal calls in one behaviour
MaxValueUnits == 5       \* vehicle values 0, 100000, .. MaxValueUnits * 100000
MaxAge == 12             \* manufacture years systemYear - MaxAge .. systemYear + 1
MaxPremiumUnits == 9     \* quoted premiums 0, 1250, .. MaxPremiumUnits * 1250
MaxFineUnits == 4        \* quoted fines 0, 550, .. MaxFineUnits * 550
MaxEarlyDays == 20       \* least daysOverdue passed to calculateLateFine, negated
MaxDays == 100           \* greatest daysOverdue passed to calculateLateFine

RegDates ==
    {PolicyDate(d, m, y) : d \in {1, 29}, m \in {1, 2, 12},
                           y \in 2022..(2021 + MaxRegYears)}

CurDates ==
    {PolicyDate(d, m, y) : d \in {1, 31}, m \in {1, 2, 4},
                           y \in 2023..(2022 + MaxCurYears)}

StatusDates ==
    {PolicyDate(d, m, y) : d \in {1, 2, 15, 31}, m \in {1, 2, 3, 4, 12},
                           y \in 2023..(2022 + MaxCurYears)}

Diesel == <<"D","i","e","s","e","l">>
FuelTypes ==
    {Diesel, <<"d","i","e","s","e","l">>, <<"E","l","e","c","t","r","i","c">>,
     <<"E","L","E","C","T","R","I","C">>, <<"P","e","t","r","o","l">>, <<>>}

LoyalCodes ==
    {<<"L","O","Y","A","L","5">>, <<"l","o","y","a","l","5">>,
     <<"L","o","y","a","L","5">>}
FirstCodes ==
    {<<"F","I","R","S","T","1","0","0">>, <<"f","i","r","s","t","1","0","0">>,
     <<"F","i","r","s","t","1","0","0">>}
OtherCodes ==
    {<<>>, <<"L","O","Y","A","L">>, <<"S","A","V","E","1","0">>,
     <<"F","I","R","S","T","1","0","0","0">>}
PromoCodes == LoyalCodes \cup FirstCodes \cup OtherCodes

\* Lines typed at the promo prompt, before trimming
PromoLines == {<<" ">>, <<" ","l","o","y","a","l","5","\t">>}

MethodChoices == 0..7
ConfirmChars == {"y", "Y", "n"}

Values == {RInt(k * 100000) : k \in 0..MaxValueUnits}
Premiums == {RInt(k * 1250) : k \in 0..MaxPremiumUnits}
Fines == {RInt(k * 550) : k \in 0..MaxFineUnits}

WorkflowVehicles ==
    {Vehicle(2020, RInt(500000), Diesel, reg) : reg \in RegDates}

----------------------------------------------------------------------------
(* The renewal workflow: a Vehicle is constructed, its status may be       *)
(* evaluated and stored as main does, and performRenewal is called.        *)
(* performRenewal blocks twice on input: its three actions run from its    *)
(* entry to the first read, from there to the second, and to its return.   *)

NoCall ==
    /\ args = <<>>
    /\ ret = Zero
    /\ called = FALSE

Init ==
    /\ v \in WorkflowVehicles
    /\ systemYear = 2024
    /\ pc = "idle"
    /\ currentDate = PolicyDate(1, 1, 2024)
    /\ basePremium = Zero
    /\ s = StatusResult
    /\ qm = BillAndMethod
    /\ entry = v.policy
    /\ events = <<>>
    /\ outcome = "none"
    /\ renewals = 0
    /\ receipts = 0
    /\ calls = 0
    /\ NoCall

\* main: status = evaluateStatus(...); userVehicle.setPolicyStatus(status.status)
StoreStatus(cur) ==
    /\ pc = "idle"
    /\ calls = 0
    /\ v.policy.status = "New"
    /\ v' = setPolicyStatus(v, evaluateStatus(v, cur).status)
    /\ entry' = v'.policy
    /\ UNCHANGED <<systemYear, pc, currentDate, basePremium, s, qm, events,
                   outcome, renewals, receipts, calls, args, ret, called>>

\* performRenewal from its entry to the read of the payment method
Enter(cur) ==
    /\ pc = "idle"
    /\ calls < MaxCalls
    /\ calls' = calls + 1
    /\ currentDate' = cur
    /\ entry' = v.policy
    /\ basePremium' = calculatePremium(v)
    /\ s' = evaluateStatus(v, cur)
    /\ qm' = BillAndMethod
    /\ IF RenewalDisabled(s')
       THEN /\ events' = <<"evaluate", "disabled">>
            /\ outcome' = "disabled"
            /\ pc' = "idle"
            /\ v' = v
       ELSE /\ v' = setPolicyStatus(v, s'.status)
            /\ events' = <<"evaluate", "display", "methods">>
            /\ outcome' = "running"
            /\ pc' = "choose"
    /\ UNCHANGED <<systemYear, renewals, receipts, args, ret, called>>

\* ... from the method and promo code read to the read of the confirmation
Choose(methodChoice, promoLine) ==
    /\ pc = "choose"
    /\ qm' = quoteAndChoosePayment(basePremium, s.fine, methodChoice, promoLine)
    /\ IF ~qm'.valid
       THEN /\ events' = events \o <<"invalid">>
            /\ outcome' = "invalid"
            /\ pc' = "idle"
       ELSE /\ events' = events \o <<"quote", "confirm">>
            /\ outcome' = "running"
            /\ pc' = "confirm"
    /\ UNCHANGED <<v, systemYear, currentDate, basePremium, s, entry,
                   renewals, receipts, calls, args, ret, called>>

\* ... from the confirmation read to the return
Confirm(ch) ==
    /\ pc = "confirm"
    /\ pc' = "idle"
    /\ IF ~PaymentConfirmed(ch)
       THEN /\ events' = events \o <<"cancelled">>
            /\ outcome' = "cancelled"
            /\ UNCHANGED <<v, renewals, receipts>>
       ELSE LET oldDue == v.policy.renewalDueDate
                newDue == calculateRenewalDate(oldDue)
            IN  /\ v' = setPolicyStatus(setRenewalDueDate(v, newDue), "Active")
                /\ renewals' = renewals + 1
                /\ receipts' = receipts + 1
                /\ events' = events \o <<"commit", "receipt">>
                /\ outcome' = "renewed"
    /\ UNCHANGED <<systemYear, currentDate, basePremium, s, qm, entry, calls,
                   args, ret, called>>

Next ==
    \/ \E cur \in CurDates : StoreStatus(cur)
    \/ \E cur \in CurDates : Enter(cur)
    \/ \E m \in MethodChoices, line \in PromoLines : Choose(m, line)
    \/ \E ch \in ConfirmChars : Confirm(ch)

Spec == Init /\ [][Next]_vars

----------------------------------------------------------------------------
(* Direct calls of the pure functions: the arguments are drawn at the      *)
(* start, and the one action applies the function to them.                 *)

NoRenewal ==
    /\ pc = "idle"
    /\ currentDate = PolicyDate(1, 1, 2024)
    /\ basePremium = Zero
    /\ s = StatusResult
    /\ qm = BillAndMethod
    /\ entry = v.policy
    /\ events = <<>>
    /\ outcome = "none"
    /\ renewals = 0
    /\ receipts = 0
    /\ calls = 0

DefaultVehicle == Vehicle(2020, RInt(500000), Diesel, PolicyDate(1, 1, 2023))

\* PaymentProcessor::quote(method, basePremium, fine, promoCode)
InitQuote ==
    /\ v = DefaultVehicle
    /\ systemYear = 2024
    /\ NoRenewal
    /\ args \in [method : Card..EMI6, basePremium : Premiums, fine : Fines,
                 promoCode : PromoCodes]
    /\ ret = BillBreakdown
    /\ called = FALSE

CallQuote ==
    /\ ~called
    /\ ret' = quote(args.method, args.basePremium, args.fine, args.promoCode)
    /\ called' = TRUE
    /\ UNCHANGED <<wfvars, args>>

SpecQuote == InitQuote /\ [][CallQuote]_vars

\* InsuranceCalculator::calculatePremium(vehicle), the clock at any year
InitPremium ==
    /\ systemYear \in 2024..2025
    /\ v \in {Vehicle(y, val, ft, PolicyDate(1, 1, 2023)) :
                y \in (2024 - MaxAge)..2025, val \in Values, ft \in FuelTypes}
    /\ NoRenewal
    /\ args = <<>>
    /\ ret = Zero
    /\ called = FALSE

CallPremium ==
    /\ ~called
    /\ ret' = calculatePremium(v)
    /\ called' = TRUE
    /\ UNCHANGED <<wfvars, args>>

SpecPremium == InitPremium /\ [][CallPremium]_vars

\* InsuranceCalculator::calculateLateFine(daysOverdue)
InitFine ==
    /\ v = DefaultVehicle
    /\ systemYear = 2024
    /\ NoRenewal
    /\ args \in [daysOverdue : (-MaxEarlyDays)..MaxDays]
    /\ ret = Zero
    /\ called = FALSE

CallFine ==
    /\ ~called
    /\ ret' = calculateLateFine(args.daysOverdue)
    /\ called' = TRUE
    /\ UNCHANGED <<wfvars, args>>

SpecFine == InitFine /\ [][CallFine]_vars

\* evaluateStatus(v, calc, currentDate) on a newly constructed Vehicle
InitStatus ==
    /\ v \in {Vehicle(2020, RInt(500000), Diesel, reg) : reg \in RegDates}
    /\ systemYear = 2024
    /\ NoRenewal
    /\ args \in [currentDate : StatusDates]
    /\ ret = StatusResult
    /\ called = FALSE

CallStatus ==
    /\ ~called
    /\ ret' = evaluateStatus(v, args.currentDate)
    /\ called' = TRUE
    /\ UNCHANGED <<wfvars, args>>

SpecStatus == InitStatus /\ [][CallStatus]_vars

----------------------------------------------------------------------------
(* Properties of the renewal workflow (Spec).                              *)

Returned == pc = "idle" /\ calls > 0

\* C1: when performRenewal returns without a committed renewal (not expired,
\* invalid method, or payment not confirmed) the policy's registration date,
\* due date and status label equal their values at entry; they differ only
\* after expired = true and a confirmed payment.
C1_PolicyUnmodifiedUnlessRenewed ==
    Returned => (v.policy # entry => outcome = "renewed")

\* C2: the renewal due date always has the registration date's day and
\* month, and its year is the registration year + 1 + the number of
\* committed renewals.
C2_DueDateIsRegistrationPlusYears ==
    /\ v.policy.renewalDueDate.day = v.policy.registrationDate.day
    /\ v.policy.renewalDueDate.month = v.policy.registrationDate.month
    /\ v.policy.renewalDueDate.year = v.policy.registrationDate.year + 1 + renewals

C2_Witness ==
    /\ renewals = 2
    /\ v.policy.registrationDate = PolicyDate(29, 2, 2022)
    /\ v.policy.renewalDueDate = PolicyDate(29, 2, 2025)

Occurs(e) == \E i \in 1..Len(events) : events[i] = e
Count(e) == Cardinality({i \in 1..Len(events) : events[i] = e})
Before(e, f) ==
    \A j \in 1..Len(events) :
        events[j] = f => \E i \in 1..(j - 1) : events[i] = e

\* C3: performRenewal's events are gated in order: with expired = false no
\* payment method is requested, no quote is made, no confirmation is asked
\* and no receipt is issued; a confirmation is asked only after a quote for a
\* valid method 1..6; a receipt is generated only after a confirmed payment,
\* and exactly one per committed renewal.
C3_EventsGated ==
    /\ (calls > 0 /\ ~s.expired) =>
          /\ ~Occurs("methods") /\ ~Occurs("quote")
          /\ ~Occurs("confirm") /\ ~Occurs("receipt")
          /\ pc = "idle" /\ outcome = "disabled"
    /\ Before("methods", "quote")
    /\ Before("quote", "confirm")
    /\ Occurs("confirm") => qm.valid /\ qm.method \in 1..6
    /\ Before("confirm", "commit")
    /\ Before("commit", "receipt")
    /\ Occurs("cancelled") \/ Occurs("invalid") => ~Occurs("receipt")
    /\ Count("receipt") = Count("commit")
    /\ Count("receipt") <= 1
    /\ Occurs("receipt") <=> (Returned /\ outcome = "renewed")
    /\ receipts = renewals

C3_Witness ==
    /\ events = <<"evaluate", "display", "methods", "quote", "confirm",
                  "commit", "receipt">>
    /\ receipts = 2

----------------------------------------------------------------------------
(* Properties of evaluateStatus (SpecStatus) and calculateLateFine         *)
(* (SpecFine).                                                             *)

StatusDiff == daysBetween(v.policy.renewalDueDate, args.currentDate)

\* C4: with diff = daysBetween(dueDate, currentDate), evaluateStatus yields
\* exactly one of: Active and not expired iff diff >= 0; Due (Grace Period)
\* and not expired iff -30 <= diff < 0; OVERDUE / EXPIRED and expired iff
\* diff < -30.
C4_StatusPartition ==
    called =>
        /\ ret.status \in {"Active", "Due (Grace Period)", "OVERDUE / EXPIRED"}
        /\ (ret.status = "Active") <=> (StatusDiff >= 0)
        /\ (ret.status = "Due (Grace Period)") <=> (-30 <= StatusDiff /\ StatusDiff < 0)
        /\ (ret.status = "OVERDUE / EXPIRED") <=> (StatusDiff < -30)
        /\ ret.expired <=> (StatusDiff < -30)

C4_Witness ==
    /\ called
    /\ StatusDiff = -30
    /\ ret.status = "Due (Grace Period)"
    /\ ~ret.expired

\* C5: calculateLateFine(d) is 0 for d <= 30 and (d - 30) * 50 for d > 30,
\* so for d >= 30 one more day adds exactly 50, without a cap.
C5_LateFine ==
    called =>
        LET d == args.daysOverdue
        IN  /\ d <= 30 => ret = RInt(0)
            /\ d > 30 => ret = RInt((d - 30) * 50)
            /\ d >= 30 => calculateLateFine(d + 1) = RAdd(ret, RInt(50))

C5_Witness ==
    /\ called
    /\ args.daysOverdue = 74
    /\ ret = RInt(2200)

----------------------------------------------------------------------------
(* Properties of quote (SpecQuote).                                        *)

\* premium + fine + fee + interest of the returned breakdown
RetSubtotal ==
    RAdd(RAdd(RAdd(ret.basePremium, ret.fine), ret.convenienceFee), ret.emiInterest)

\* C6 as stated: total = basePremium + fine + convenienceFee + emiInterest
\* - discount + gst, with gst = 0.18 * max(0, that sum before gst).
C6_TotalIsSumLessDiscountPlusGst ==
    called =>
        /\ ret.total = RAdd(RSub(RetSubtotal, ret.discount), ret.gst)
        /\ ret.gst = RMul(Rat(18, 100), RMax(Zero, RSub(RetSubtotal, ret.discount)))

\* C6 as amended: total = max(0, basePremium + fine + convenienceFee +
\* emiInterest - discount) + gst, with gst = 0.18 * that floored amount; the
\* stated sum is the total whenever the discount does not exceed the subtotal.
C6_TotalIsFlooredSubtotalPlusGst ==
    called =>
        LET post == RMax(Zero, RSub(RetSubtotal, ret.discount))
        IN  /\ ret.basePremium = args.basePremium
            /\ ret.fine = args.fine
            /\ ret.gst = RMul(Rat(18, 100), post)
            /\ ret.total = RAdd(post, ret.gst)
            /\ RLe(ret.discount, RetSubtotal) =>
                   ret.total = RAdd(RSub(RetSubtotal, ret.discount), ret.gst)

C6_Witness ==
    /\ called
    /\ args.method = UPI
    /\ args.promoCode = <<"F","I","R","S","T","1","0","0">>
    /\ args.basePremium = Zero /\ args.fine = Zero
    /\ ret.discount = RInt(100)
    /\ ret.total = Zero

\* C7: for basePremium >= 0 and fine >= 0 all seven fields of the breakdown
\* are >= 0.
C7_FieldsNonNegative ==
    (called /\ RLe(Zero, args.basePremium) /\ RLe(Zero, args.fine)) =>
        /\ RLe(Zero, ret.basePremium)
        /\ RLe(Zero, ret.fine)
        /\ RLe(Zero, ret.discount)
        /\ RLe(Zero, ret.convenienceFee)
        /\ RLe(Zero, ret.emiInterest)
        /\ RLe(Zero, ret.gst)
        /\ RLe(Zero, ret.total)

C7_Witness ==
    /\ called
    /\ args.method = Branch
    /\ args.basePremium = Zero /\ args.fine = Zero
    /\ RLt(RetSubtotal, ret.discount)
    /\ ret.gst = Zero /\ ret.total = Zero

\* C9: fee and interest by method: Card min(150, 1.5% of premium + fine), 0;
\* UPI 0, 0; NetBanking 10, 0; Branch 50, 0; EMI-3 0, 0.12 * (premium + fine)
\* * 3/12; EMI-6 0, 0.12 * (premium + fine) * 6/12.  The principal excludes
\* the fee, the card fee is at most 150, EMI-6 interest is twice EMI-3's.
C9_FeeAndInterestByMethod ==
    called =>
        LET pf == RAdd(args.basePremium, args.fine)
            m == args.method
            fee == ret.convenienceFee
            int == ret.emiInterest
        IN  /\ m = Card =>
                /\ fee = (IF RLt(RInt(150), RMul(Rat(15, 1000), pf))
                          THEN RInt(150) ELSE RMul(Rat(15, 1000), pf))
                /\ RLe(fee, RInt(150))
                /\ int = Zero
            /\ m = UPI => fee = Zero /\ int = Zero
            /\ m = NetBanking => fee = RInt(10) /\ int = Zero
            /\ m = Branch => fee = RInt(50) /\ int = Zero
            /\ m = EMI3 => fee = Zero /\ int = RMul(Rat(3, 100), pf)
            /\ m = EMI6 =>
                /\ fee = Zero
                /\ int = RMul(Rat(6, 100), pf)
                /\ int = RMul(RInt(2),
                              quote(EMI3, args.basePremium, args.fine,
                                    args.promoCode).emiInterest)

C9_Witness ==
    /\ called
    /\ args.method = Card
    /\ args.basePremium = RInt(11250) /\ args.fine = RInt(2200)
    /\ ret.convenienceFee = RInt(150)

\* C10: the discount is computed on subtotal = premium + fine + fee +
\* interest before tax: LOYAL5 in any letter case gives min(500, 5% of
\* subtotal), FIRST100 in any letter case gives 100, any other code and the
\* empty one give 0; the tax is 18% of max(0, subtotal - discount).
C10_PromoBeforeTax ==
    called =>
        LET five == RMul(Rat(5, 100), RetSubtotal)
        IN  /\ args.promoCode \in LoyalCodes =>
                ret.discount = (IF RLt(five, RInt(500)) THEN five ELSE RInt(500))
            /\ args.promoCode \in FirstCodes => ret.discount = RInt(100)
            /\ args.promoCode \in OtherCodes => ret.discount = Zero
            /\ ret.gst = RMul(Rat(18, 100), RMax(Zero, RSub(RetSubtotal, ret.discount)))
            /\ (RLt(Zero, ret.discount) /\ RLt(ret.discount, RetSubtotal)) =>
                   RLt(ret.gst, RMul(Rat(18, 100), RetSubtotal))

C10_Witness ==
    /\ called
    /\ args.promoCode = <<"L","o","y","a","L","5">>
    /\ args.method = EMI6
    /\ args.basePremium = RInt(5000) /\ args.fine = RInt(550)
    /\ ret.discount = Rat(29415, 100)
    /\ ret.gst = RMul(Rat(18, 100), RSub(RInt(5883), Rat(29415, 100)))

----------------------------------------------------------------------------
(* Properties of calculatePremium (SpecPremium).                           *)

ElectricNames == {<<"E","l","e","c","t","r","i","c">>, <<"E","L","E","C","T","R","I","C">>}
DieselNames == {<<"D","i","e","s","e","l">>, <<"d","i","e","s","e","l">>}

\* C8: calculatePremium = max(5000, value * 0.025 * max(0.7, 1 - 0.03 *
\* max(0, currentYear - manufactureYear)) + adj) with adj -500 for Electric,
\* +250 for Diesel and 0 otherwise, in any letter case; so it is >= 5000.
C8_PremiumFormula ==
    called =>
        LET age == IF systemYear > v.year THEN systemYear - v.year ELSE 0
            linear == Rat(100 - 3 * age, 100)
            ageFactor == IF RLt(linear, Rat(7, 10)) THEN Rat(7, 10) ELSE linear
            adj == IF v.fuelType \in ElectricNames THEN RInt(-500)
                   ELSE IF v.fuelType \in DieselNames THEN RInt(250)
                   ELSE Zero
            raw == RAdd(RMul(RMul(v.originalValue, Rat(25, 1000)), ageFactor), adj)
        IN  /\ ret = (IF RLt(raw, RInt(5000)) THEN RInt(5000) ELSE raw)
            /\ RLe(RInt(5000), ret)

C8_Witness ==
    /\ called
    /\ v.originalValue = RInt(500000)
    /\ v.year = 2020
    /\ v.fuelType = Diesel
    /\ systemYear = 2024
    /\ ret = RInt(11250)

----------------------------------------------------------------------------
(* The policy after a committed renewal (Spec).                            *)

Renewed == Returned /\ outcome = "renewed"

\* Days by which the call's current date is past the due date at entry
OverdueAtEntry == -daysBetween(entry.renewalDueDate, currentDate)

\* C11 as stated: after a committed renewal the stored status label is
\* 'Active' and evaluateStatus on the renewed due date, with the current date
\* that triggered the renewal, reports expired = false.
C11_ActiveAfterRenewalAgreesWithEvaluator ==
    Renewed =>
        /\ v.policy.status = "Active"
        /\ ~evaluateStatus(v, currentDate).expired

\* C11 as amended: after a committed renewal the stored status label is
\* 'Active' and the due date is the prior due date plus one year;
\* evaluateStatus with the same current date reports expired = false exactly
\* when that date is at most 30 days past the renewed due date: always when
\* it is at most 395 days past the prior due date, never when it is more
\* than 396 days past it (the stored label then disagrees with the evaluator).
C11_ActiveAfterRenewal ==
    Renewed =>
        /\ v.policy.status = "Active"
        /\ v.policy.renewalDueDate.year = entry.renewalDueDate.year + 1
        /\ v.policy.renewalDueDate.day = entry.renewalDueDate.day
        /\ v.policy.renewalDueDate.month = entry.renewalDueDate.month
        /\ s.expired /\ OverdueAtEntry > 30
        /\ evaluateStatus(v, currentDate).expired <=>
               (daysBetween(v.policy.renewalDueDate, currentDate) < -30)
        /\ OverdueAtEntry <= 395 => ~evaluateStatus(v, currentDate).expired
        /\ OverdueAtEntry > 396 => evaluateStatus(v, currentDate).expired

C11_Witness ==
    /\ Renewed
    /\ v.policy.status = "Active"
    /\ entry.renewalDueDate = PolicyDate(1, 1, 2023)
    /\ currentDate = PolicyDate(1, 4, 2025)
    /\ evaluateStatus(v, currentDate).status = "OVERDUE / EXPIRED"

C11_WitnessAgrees ==
    /\ Renewed
    /\ OverdueAtEntry <= 395
    /\ evaluateStatus(v, currentDate).status = "Active"

----------------------------------------------------------------------------
(* The StatusResult of evaluateStatus (SpecStatus).                        *)

\* Calendar days from the current date to the due date
CalendarDiff == DayNumber(v.policy.renewalDueDate) - DayNumber(args.currentDate)

\* C12: daysToDueOrOverdue is the signed difference due - current in days
\* (>= 0 when not yet due, < 0 when overdue), fine = 50 * max(0,
\* -daysToDueOrOverdue - 30), and fine > 0 exactly when expired = true: an
\* expired policy carries a fine of at least 50, any other a fine of 0.
C12_StatusResultConsistent ==
    called =>
        LET d == ret.daysToDueOrOverdue
            late == IF -d - 30 > 0 THEN -d - 30 ELSE 0
        IN  /\ d = CalendarDiff
            /\ ret.fine = RInt(50 * late)
            /\ RLt(Zero, ret.fine) <=> ret.expired
            /\ ret.expired => RLe(RInt(50), ret.fine)
            /\ ~ret.expired => ret.fine = Zero

C12_Witness ==
    /\ called
    /\ v.policy.renewalDueDate = PolicyDate(1, 1, 2024)
    /\ args.currentDate = PolicyDate(15, 3, 2024)
    /\ ret.daysToDueOrOverdue = -74
    /\ ret.fine = RInt(2200)
    /\ ret.expired

====
